---------------------------- MODULE Spec2Model ----------------------------
(***************************************************************************)
(* PollSystem+ (NoaHalali/TeamRocket): the Poll entity, the user registry, *)
(* the in-memory poll store, the PollsManager service and the Express      *)
(* routes, as a state machine.                                             *)
(*                                                                         *)
(* Strings are sequences of one-character strings, so that trim() is       *)
(* computed and not assumed.  A JavaScript value that the code inspects    *)
(* with typeof / Number.isInteger / isNaN is a record [t, s, i, f]:        *)
(*   t = "string"    s = the characters                                    *)
(*   t = "number"    the number i + f/10 (i = floor), or NaN when s # <<>> *)
(*   t = "null", "undefined"                                               *)
(* Poll identifiers (uuid v4 strings in the code) are the positions of the *)
(* Poll objects in the heap: each constructed Poll gets a fresh one.       *)
(***************************************************************************)
EXTENDS Integers, Sequences, FiniteSets, TLC

VARIABLES
    users,      \* UserManager.#users : Set<string>
    heap,       \* every Poll object constructed so far, by identifier
    store,      \* PollsMemoryManagement.#polls : the stored identifiers, in Map insertion order
    handle,     \* a value a caller obtained from a read accessor or from getResults
    last,       \* the last call: what was called, on what, and how it ended
    pending,    \* the calls of async methods suspended at an await, in the order in
                \* which their continuations were queued (the microtask queue)
    server,     \* startServer.js: let server (0 while undefined)
    sockets,    \* startServer.js: const sockets = new Set()
    servers,    \* every http.Server created so far
    conns,      \* every connection a server accepted so far
    stops       \* the promises the calls of stop() returned

\* the state of startServer.js and of the node:http objects it makes
serverVars == <<server, sockets, servers, conns, stops>>

vars == <<users, heap, store, handle, last, pending, serverVars>>

(***************************************************************************)
(* Bounds                                                                  *)
(***************************************************************************)
MaxPolls == 1       \* Poll objects constructed directly with new Poll(...)
MaxCreated == 2     \* polls created through PollsManager.createPoll
MaxPosted == 1      \* polls created through POST /polls
MaxUsers == 2       \* names in the registry
MaxOptions == 3     \* length an option array is allowed to grow to through an alias
MaxAdded == 2       \* Poll objects constructed for a repository that is used directly
MaxCalls == 2       \* calls of async methods suspended at the same time
MaxServers == 2     \* calls of start()
MaxSockets == 2     \* connections accepted
MaxStops == 2       \* calls of stop()

(***************************************************************************)
(* Strings                                                                 *)
(***************************************************************************)
WhiteSpace == {" ", "\t", "\n"}

RECURSIVE TrimStart(_)
TrimStart(s) ==
    IF s # <<>> /\ Head(s) \in WhiteSpace THEN TrimStart(Tail(s)) ELSE s

RECURSIVE TrimEnd(_)
TrimEnd(s) ==
    IF s # <<>> /\ s[Len(s)] \in WhiteSpace
    THEN TrimEnd(SubSeq(s, 1, Len(s) - 1))
    ELSE s

\* String.prototype.trim
Trim(s) == TrimEnd(TrimStart(s))

(***************************************************************************)
(* JavaScript values                                                       *)
(***************************************************************************)
JSStr(s) == [t |-> "string", s |-> s, i |-> 0, f |-> 0]
JSNum(i, f) == [t |-> "number", s |-> <<>>, i |-> i, f |-> f]
JSNaN == [t |-> "number", s |-> <<"N", "a", "N">>, i |-> 0, f |-> 0]
JSNull == [t |-> "null", s |-> <<>>, i |-> 0, f |-> 0]
JSUndefined == [t |-> "undefined", s |-> <<>>, i |-> 0, f |-> 0]

\* the typeof operator
TypeOf(v) == IF v.t = "null" THEN "object" ELSE v.t

IsNaNValue(v) == v.t = "number" /\ v.s # <<>>

\* Number.isInteger
NumberIsInteger(v) == v.t = "number" /\ ~IsNaNValue(v) /\ v.f = 0

\* typeof v === 'string' && v.trim().length > 0
IsNonBlankString(v) == TypeOf(v) = "string" /\ Len(Trim(v.s)) # 0

\* the truthiness of a value (!v is its negation)
Truthy(v) ==
    CASE v.t = "string" -> v.s # <<>>
      [] v.t = "number" -> ~IsNaNValue(v) /\ ~(v.i = 0 /\ v.f = 0)
      [] OTHER -> FALSE

(***************************************************************************)
(* Plain objects used as maps (Poll.#results).  A property write through   *)
(* obj[key] with key "__proto__" reaches the accessor of Object.prototype, *)
(* which ignores a value that is not an object or null: no own property    *)
(* is created.  A read of that key gives Object.prototype, and             *)
(* Object.prototype + 1 is a string, which the accessor ignores as well.   *)
(***************************************************************************)
ProtoKey == <<"_", "_", "p", "r", "o", "t", "o", "_", "_">>

EmptyObject == [k \in {} |-> 0]

\* obj[key] = n, for a number n
ObjAssign(obj, key, n) ==
    IF key = ProtoKey
    THEN obj
    ELSE [k \in DOMAIN obj \cup {key} |-> IF k = key THEN n ELSE obj[k]]

\* obj[key] += 1
ObjIncrement(obj, key) ==
    IF key = ProtoKey
    THEN obj
    ELSE ObjAssign(obj, key, obj[key] + 1)

RECURSIVE SumValues(_)
\* the sum of the values of an object's own properties
SumValues(obj) ==
    IF DOMAIN obj = {}
    THEN 0
    ELSE LET k == CHOOSE x \in DOMAIN obj : TRUE
         IN obj[k] + SumValues([x \in DOMAIN obj \ {k} |-> obj[x]])

(***************************************************************************)
(* Poll                                                                    *)
(***************************************************************************)
\* an argument given as the options of a poll: an array of values, or not an array
JSArray(elems) == [isArray |-> TRUE, elems |-> elems]
NotAnArray == [isArray |-> FALSE, elems |-> <<>>]

RECURSIVE InitResults(_, _)
\* for (const option of this.#options) this.#results[option] = 0
InitResults(options, obj) ==
    IF options = <<>>
    THEN obj
    ELSE InitResults(Tail(options), ObjAssign(obj, Head(options), 0))

\* PollConstructorError without the test of creator
PollConstructorError_NoCreatorTest(question, options, creator) ==
    IF TypeOf(question) # "string"
    THEN "TypeError: question must be a string"
    ELSE IF ~options.isArray
            \/ ~(\A n \in 1..Len(options.elems) : TypeOf(options.elems[n]) = "string")
    THEN "TypeError: options must be an array of strings"
    ELSE ""

\* the error the Poll constructor throws, "" when it throws none
PollConstructorError(question, options, creator) ==
    IF TypeOf(question) # "string"
    THEN "TypeError: question must be a string"
    ELSE IF ~options.isArray
            \/ ~(\A n \in 1..Len(options.elems) : TypeOf(options.elems[n]) = "string")
    THEN "TypeError: options must be an array of strings"
    ELSE IF TypeOf(creator) # "string" \/ Len(Trim(creator.s)) = 0
    THEN "TypeError: creator must be a non-empty string"
    ELSE ""

\* the fields of a Poll the constructor has completed
PollConstructor(question, options, creator) ==
    LET opts == [n \in 1..Len(options.elems) |-> options.elems[n].s]
    IN [question   |-> Trim(question.s),
        options    |-> opts,
        totalVotes |-> 0,
        results    |-> InitResults(opts, EmptyObject),
        creator    |-> creator.s,
        voters     |-> {}]

\* InvalidOptionIndex without the Number.isInteger test
InvalidOptionIndex_NoIntegerTest(poll, optionIndex) ==
    \/ TypeOf(optionIndex) # "number"
    \/ IsNaNValue(optionIndex)
    \/ optionIndex.i < 0
    \/ optionIndex.i >= Len(poll.options)

\* the guard of Poll.vote that throws the RangeError
InvalidOptionIndex(poll, optionIndex) ==
    \/ TypeOf(optionIndex) # "number"
    \/ ~NumberIsInteger(optionIndex)
    \/ optionIndex.i < 0
    \/ optionIndex.i >= Len(poll.options)

\* PollVoteError without the test of #voters
PollVoteError_NoVoterTest(poll, optionIndex, username) ==
    IF InvalidOptionIndex(poll, optionIndex)
    THEN "RangeError: Invalid option index"
    ELSE ""

\* the error Poll.vote throws, "" when it throws none
PollVoteError(poll, optionIndex, username) ==
    IF InvalidOptionIndex(poll, optionIndex)
    THEN "RangeError: Invalid option index"
    ELSE IF username \in poll.voters
    THEN "Error: User has already voted in this poll."
    ELSE ""

\* PollRecordVote, with the voter taking the poll over as its creator
PollRecordVote_TakesOver(poll, optionIndex, username) ==
    LET option == poll.options[optionIndex.i + 1]
    IN [poll EXCEPT !.results    = ObjIncrement(@, option),
                    !.totalVotes = @ + 1,
                    !.voters     = @ \cup {username},
                    !.creator    = username]

\* the three assignments that record a vote (options are indexed from 0 in the code)
PollRecordVote(poll, optionIndex, username) ==
    LET option == poll.options[optionIndex.i + 1]
    IN [poll EXCEPT !.results    = ObjIncrement(@, option),
                    !.totalVotes = @ + 1,
                    !.voters     = @ \cup {username}]


(***************************************************************************)
(* Read accessors.  A getter that returns the private object itself hands  *)
(* the caller an alias (live = TRUE): what the caller sees through it, and *)
(* what the caller writes through it, is the Poll's own state.  A getter   *)
(* that builds a new object hands out a copy (live = FALSE).               *)
(***************************************************************************)
\* get options() { return this.#options; }
OptionsGetter(poll) == [live |-> TRUE, value |-> poll.options]

\* get results() { return this.#results; }
ResultsGetter(poll) == [live |-> TRUE, value |-> poll.results]

\* get voters() { return new Set(this.#voters); }
VotersGetter(poll) == [live |-> FALSE, value |-> poll.voters]

(***************************************************************************)
(* The last call and the caller's handle                                   *)
(***************************************************************************)
\* args: the arguments of a call that takes more than an index and a name
NoCall ==
    [op |-> "", err |-> "", id |-> 0, arg |-> JSUndefined, name |-> <<>>, status |-> 0,
     args |-> <<>>]

Call(op, err, id, arg, name) ==
    [op |-> op, err |-> err, id |-> id, arg |-> arg, name |-> name, status |-> 0,
     args |-> <<>>]

\* kind: what was handed out; id: of which Poll; live: the fields of it that are the
\* Poll's own objects; the other fields: the content when it was handed out, which
\* for a copy is also where the caller's later writes go
NoHandle ==
    [kind |-> "none", id |-> 0, live |-> {}, question |-> <<>>, totalVotes |-> 0,
     options |-> <<>>, results |-> EmptyObject, voters |-> {}]

\* what the caller reads through the handle now
SeenOptions ==
    IF "options" \in handle.live THEN heap[handle.id].options ELSE handle.options
SeenResults ==
    IF "results" \in handle.live THEN heap[handle.id].results ELSE handle.results
SeenVoters ==
    IF "voters" \in handle.live THEN heap[handle.id].voters ELSE handle.voters

(***************************************************************************)
(* Initial state: an empty registry, no Poll object, an empty store        *)
(***************************************************************************)
Init ==
    /\ users = {}
    /\ heap = <<>>
    /\ store = <<>>
    /\ handle = NoHandle
    /\ last = NoCall
    /\ pending = <<>>
    /\ server = 0
    /\ sockets = {}
    /\ servers = <<>>
    /\ conns = <<>>
    /\ stops = <<>>

PollIds == 1..Len(heap)

(***************************************************************************)
(* Inputs                                                                  *)
(***************************************************************************)
alice == <<"a">>
bob == <<"b">>
Tea == <<"T">>
Coffee == <<"C">>

QuestionArgs == {JSStr(<<"q">>), JSStr(<<" ", "q", " ">>), JSStr(<<>>), JSNum(1, 0)}

OptionsArgs ==
    {JSArray(<<JSStr(Tea), JSStr(Coffee)>>),
     JSArray(<<JSStr(Tea), JSStr(Tea)>>),
     JSArray(<<JSStr(ProtoKey), JSStr(Coffee)>>),
     JSArray(<<JSStr(Tea)>>),
     JSArray(<<JSStr(Tea), JSNum(2, 0)>>),
     NotAnArray}

CreatorArgs == {JSStr(alice), JSStr(<<" ">>), JSUndefined}

IndexArgs ==
    {JSNum(-1, 0), JSNum(0, 0), JSNum(1, 0), JSNum(2, 0), JSNum(1, 5), JSNaN,
     JSStr(<<"1">>), JSUndefined}

VoterArgs == {alice, bob}

(***************************************************************************)
(* Poll entity, used directly                                              *)
(***************************************************************************)
\* new Poll(question, options, creator), as long as fewer than limit were constructed
NewPollWithin(limit, question, options, creator) ==
    /\ LET err == PollConstructorError(question, options, creator)
       IN /\ err = "" => Len(heap) < limit
          /\ heap' = IF err = ""
                     THEN Append(heap, PollConstructor(question, options, creator))
                     ELSE heap
          /\ last' = [Call("new Poll", err, IF err = "" THEN Len(heap) + 1 ELSE 0,
                           JSUndefined, <<>>)
                         EXCEPT !.args = <<question, options, creator>>]
    /\ UNCHANGED <<users, store, handle, pending, serverVars>>

\* new Poll(question, options, creator)
NewPoll(question, options, creator) == NewPollWithin(MaxPolls, question, options, creator)

\* poll.vote(optionIndex, username) on the Poll object id
PollVote(id, optionIndex, username) ==
    /\ id \in PollIds
    /\ LET err == PollVoteError(heap[id], optionIndex, username)
       IN /\ heap' = IF err = ""
                     THEN [heap EXCEPT ![id] = PollRecordVote(@, optionIndex, username)]
                     ELSE heap
          /\ last' = Call("Poll.vote", err, id, optionIndex, username)
    /\ UNCHANGED <<users, store, handle, pending, serverVars>>

NextPoll ==
    \/ \E o \in OptionsArgs, c \in CreatorArgs : NewPoll(JSStr(<<"q">>), o, c)
    \/ \E id \in PollIds, i \in IndexArgs, u \in VoterArgs : PollVote(id, i, u)

SpecPoll == Init /\ [][NextPoll]_vars

\* what the constructor is given as options, the empty array and an empty text included
ConstructorOptionsArgs ==
    {JSArray(<<JSStr(Tea), JSStr(Coffee)>>),
     JSArray(<<JSStr(Tea)>>),
     JSArray(<<>>),
     JSArray(<<JSStr(Tea), JSStr(<<>>)>>),
     JSArray(<<JSStr(Tea), JSNum(2, 0)>>),
     NotAnArray}

\* Poll objects constructed with every kind of argument, then voted on
NextConstruct ==
    \/ \E q \in QuestionArgs, o \in ConstructorOptionsArgs, c \in CreatorArgs : NewPoll(q, o, c)
    \/ \E id \in PollIds : PollVote(id, JSNum(0, 0), alice)

SpecConstruct == Init /\ [][NextConstruct]_vars

(***************************************************************************)
(* Claims about the Poll entity (SpecPoll)                                 *)
(***************************************************************************)
\* C1: in every reachable state every Poll object, stored or not, has
\* totalVotes equal to the number of voters and to the sum of its tally.
C1_TotalVotesIsVotersIsTally ==
    \A id \in PollIds :
        /\ heap[id].totalVotes = Cardinality(heap[id].voters)
        /\ heap[id].totalVotes = SumValues(heap[id].results)

\* C2: once username has voted on a poll, every later vote(position, username)
\* on that poll, whatever the position, fails and leaves the poll as it was.
C2_SecondVoteFails ==
    [][(/\ last'.op = "Poll.vote"
        /\ last'.name \in heap[last'.id].voters)
       => (last'.err # "" /\ heap' = heap)]_vars

C2_Witness ==
    /\ last.op = "Poll.vote"
    /\ last.name \in heap[last.id].voters
    /\ last.err = "Error: User has already voted in this poll."
    /\ NumberIsInteger(last.arg)
    /\ last.arg.i \in 0..(Len(heap[last.id].options) - 1)

\* the positions of a poll with n options: the integers 0 .. n-1
Positions(n) == {JSNum(k, 0) : k \in 0..(n - 1)}

\* C3: a vote whose position is not an integer in [0, options.length) fails with
\* a RangeError and leaves the poll as it was; the voter can still vote afterwards.
C3_BadPositionFails ==
    [][(/\ last'.op = "Poll.vote"
        /\ last'.arg \notin Positions(Len(heap[last'.id].options)))
       => (/\ last'.err = "RangeError: Invalid option index"
           /\ heap' = heap
           /\ (last'.name \notin heap[last'.id].voters /\ heap[last'.id].options # <<>>
                 => PollVoteError(heap'[last'.id], JSNum(0, 0), last'.name) = ""))]_vars

C3_Witness ==
    /\ last.op = "Poll.vote"
    /\ last.err = "RangeError: Invalid option index"
    /\ last.arg = JSNum(1, 5)
    /\ last.name \notin heap[last.id].voters
    /\ heap[last.id].totalVotes = 1

\* C14: a successful vote(position, voter) adds exactly 1 to the tally entry of
\* options[position] and to totalVotes, adds voter to voters and leaves every other
\* tally entry as it was; no tally count ever decreases.
C14_VoteIncrementsOneEntry ==
    [][(last'.op = "Poll.vote" /\ last'.err = "")
       => LET id == last'.id
              option == heap[id].options[last'.arg.i + 1]
              before == heap[id].results
              after == heap'[id].results
          IN /\ option \in DOMAIN before
             /\ option \in DOMAIN after
             /\ after[option] = before[option] + 1
             /\ \A k \in DOMAIN before \ {option} : k \in DOMAIN after /\ after[k] = before[k]
             /\ heap'[id].totalVotes = heap[id].totalVotes + 1
             /\ heap'[id].voters = heap[id].voters \cup {last'.name}
             /\ last'.name \notin heap[id].voters]_vars

(***************************************************************************)
(* Claims about the Poll constructor (SpecConstruct)                       *)
(***************************************************************************)
\* C11 as stated: every Poll instance that exists has a non-empty question and at
\* least 2 options, none of them empty.
C11_EveryPollHasQuestionAndTwoOptions ==
    \A id \in PollIds :
        /\ heap[id].question # <<>>
        /\ Len(heap[id].options) >= 2
        /\ \A n \in 1..Len(heap[id].options) : heap[id].options[n] # <<>>

\* C11 as amended: new Poll(question, options, creator) fails, and no Poll is
\* produced, exactly when question is not text, options is not an array of texts,
\* or creator is not text or is blank; an empty question, an empty option and
\* fewer than 2 options are accepted.  A Poll that is produced has the given
\* options in the given order, the given creator, the trimmed question, no votes.
C11_ConstructorRejectsWrongTypes ==
    [][last'.op = "new Poll"
       => LET question == last'.args[1]
              options == last'.args[2]
              creator == last'.args[3]
              wrong ==
                  \/ question.t # "string"
                  \/ ~options.isArray
                  \/ \E n \in 1..Len(options.elems) : options.elems[n].t # "string"
                  \/ creator.t # "string"
                  \/ \A n \in 1..Len(creator.s) : creator.s[n] \in {" ", "\t", "\n"}
          IN /\ last'.err # "" <=> wrong
             /\ wrong => heap' = heap
             /\ ~wrong =>
                   /\ Len(heap') = Len(heap) + 1
                   /\ \A id \in PollIds : heap'[id] = heap[id]
                   /\ LET poll == heap'[Len(heap')]
                      IN /\ Len(poll.options) = Len(options.elems)
                         /\ \A n \in 1..Len(poll.options) : poll.options[n] = options.elems[n].s
                         /\ poll.creator = creator.s
                         /\ poll.question = Trim(question.s)
                         /\ poll.totalVotes = 0
                         /\ poll.voters = {}]_vars

C11_Witness ==
    /\ last.op = "new Poll"
    /\ last.err = ""
    /\ last.args[1] = JSStr(<<>>)
    /\ last.args[2] = JSArray(<<JSStr(Tea), JSStr(<<>>)>>)
    /\ heap[last.id].question = <<>>
    /\ heap[last.id].options = <<Tea, <<>>>>

(***************************************************************************)
(* UserManager                                                             *)
(***************************************************************************)
\* CreateUserError with the emptiness test made on the string as given, not trimmed
CreateUserError_NoTrim(registry, username) ==
    IF TypeOf(username) # "string" \/ Len(username.s) = 0
    THEN "Error: Username must be a non-empty string."
    ELSE IF username.s \in registry
    THEN "Error: Username already exists."
    ELSE ""

\* CreateUserError with the duplicate test made on the trimmed name
CreateUserError_TrimmedLookup(registry, username) ==
    IF TypeOf(username) # "string" \/ Len(Trim(username.s)) = 0
    THEN "Error: Username must be a non-empty string."
    ELSE IF Trim(username.s) \in registry
    THEN "Error: Username already exists."
    ELSE ""

\* the error createUser throws, "" when it throws none
CreateUserError(registry, username) ==
    IF TypeOf(username) # "string" \/ Len(Trim(username.s)) = 0
    THEN "Error: Username must be a non-empty string."
    ELSE IF username.s \in registry
    THEN "Error: Username already exists."
    ELSE ""

\* userExists(username)
UserExists(registry, username) == username \in registry

NameArgs ==
    {JSStr(alice), JSStr(bob), JSStr(<<"A">>),
     JSStr(<<" ", "a">>), JSStr(<<"a", " ">>), JSStr(<<" ", "a", " ">>),
     JSStr(<<>>), JSStr(<<" ">>), JSStr(<<" ", " ">>), JSStr(<<"\t", "\n">>),
     JSNum(123, 0), JSUndefined}

\* await userManager.createUser(username)
CreateUser(username) ==
    LET err == CreateUserError(users, username)
    IN /\ err = "" => Cardinality(users) < MaxUsers
       /\ users' = IF err = "" THEN users \cup {username.s} ELSE users
       /\ last' = Call("createUser", err, 0, username, <<>>)
       /\ UNCHANGED <<heap, store, handle, pending, serverVars>>

NextUsers == \E n \in NameArgs : CreateUser(n)

SpecUsers == Init /\ [][NextUsers]_vars

(***************************************************************************)
(* Claims about the registry (SpecUsers)                                   *)
(***************************************************************************)
\* C7: createUser(name) fails with the conflict error exactly when the very same
\* string is registered already, a failed call leaves the registry as it was, and
\* a name that differs from the registered ones (be it only in letter case or in
\* surrounding white space) and is not blank is added.
C7_ConflictOnExactMatchOnly ==
    [][last'.op = "createUser"
       => LET name == last'.arg IN
          /\ last'.err = "Error: Username already exists."
               <=> (name.t = "string" /\ name.s \in users)
          /\ last'.err # "" => users' = users
          /\ (/\ name.t = "string"
              /\ name.s \notin users
              /\ \E n \in 1..Len(name.s) : name.s[n] \notin {" ", "\t", "\n"})
               => (last'.err = "" /\ users' = users \cup {name.s})]_vars

C7_Witness ==
    /\ last.op = "createUser"
    /\ last.err = "Error: Username already exists."
    /\ last.arg = JSStr(<<" ", "a">>)
    /\ users = {<<"a">>, <<" ", "a">>}

\* C8: createUser(name) fails with 'Username must be a non-empty string.' when
\* name is empty, only white space or not a string, and the registry is unchanged.
C8_BlankNameRejected ==
    [][(/\ last'.op = "createUser"
        /\ \/ last'.arg.t # "string"
           \/ \A n \in 1..Len(last'.arg.s) : last'.arg.s[n] \in {" ", "\t", "\n"})
       => (/\ last'.err = "Error: Username must be a non-empty string."
           /\ users' = users
           /\ last'.arg.t = "string" => ~UserExists(users', last'.arg.s))]_vars

C8_Witness ==
    /\ last.op = "createUser"
    /\ last.err = "Error: Username must be a non-empty string."
    /\ last.arg = JSStr(<<" ", " ">>)
    /\ users # {}

(***************************************************************************)
(* PollsMemoryManagement: a Map from identifier to Poll.  The model keeps  *)
(* the keys in insertion order; the value of key id is the Poll heap[id].  *)
(***************************************************************************)
\* this.#polls.has(id)
Stored(id) == \E n \in 1..Len(store) : store[n] = id

\* StoreSet adding an entry whether or not the key is present
StoreSet_Append(map, id) == Append(map, id)

\* addPoll: this.#polls.set(poll.uuid, poll); a key already present keeps its place
StoreSet(map, id) == IF \E n \in 1..Len(map) : map[n] = id THEN map ELSE Append(map, id)

\* StoreDelete, removing the first entry whatever its key
StoreDelete_First(map, id) == IF map = <<>> THEN <<>> ELSE Tail(map)

\* StoreDelete, removing every key
StoreDelete_Clear(map, id) == <<>>

RECURSIVE StoreDelete(_, _)
\* deletePoll: this.#polls.delete(pollId)
StoreDelete(map, id) ==
    IF map = <<>>
    THEN <<>>
    ELSE IF Head(map) = id
    THEN StoreDelete(Tail(map), id)
    ELSE <<Head(map)>> \o StoreDelete(Tail(map), id)

\* getPoll: this.#polls.get(pollId) || null, with 0 for null
StoreGet(map, id) == IF \E n \in 1..Len(map) : map[n] = id THEN id ELSE 0

\* getAllPolls: Array.from(this.#polls.values())
GetAllPolls == store

(***************************************************************************)
(* PollsMemoryManagement used directly, with Poll objects the caller made  *)
(***************************************************************************)
\* what a caller passes to addPoll: a Poll, or another object with a uuid property
APoll(id) == [isPoll |-> TRUE, uuid |-> id]
NotAPoll(id) == [isPoll |-> FALSE, uuid |-> id]

\* the error addPoll throws, "" when none: !(poll instanceof Poll)
AddPollError(value) ==
    IF ~value.isPoll THEN "Error: The provided object is not an instance of Poll." ELSE ""

\* await repo.addPoll(value)
AddPoll(value) ==
    /\ LET err == AddPollError(value)
       IN /\ store' = IF err = "" THEN StoreSet(store, value.uuid) ELSE store
          /\ last' = [Call("addPoll", err, value.uuid, JSUndefined, <<>>) EXCEPT !.args = <<value>>]
    /\ UNCHANGED <<users, heap, handle, pending, serverVars>>

\* await repo.getPoll(pollId)
RepoGetPoll(pollId) ==
    /\ last' = [Call("repo.getPoll", "", pollId, JSUndefined, <<>>)
                 EXCEPT !.args = IF StoreGet(store, pollId) = 0
                                 THEN <<>>
                                 ELSE <<StoreGet(store, pollId)>>]
    /\ UNCHANGED <<users, heap, store, handle, pending, serverVars>>

\* await repo.getAllPolls()
RepoGetAllPolls ==
    /\ last' = [Call("repo.getAllPolls", "", 0, JSUndefined, <<>>) EXCEPT !.args = GetAllPolls]
    /\ UNCHANGED <<users, heap, store, handle, pending, serverVars>>

\* the error votePoll throws, "" when none
VotePollError(pollId, optionIndex, username) ==
    IF StoreGet(store, pollId) = 0
    THEN "Error: Poll with ID not found."
    ELSE PollVoteError(heap[pollId], optionIndex, username)

\* await repo.votePoll(pollId, optionIndex, username)
VotePoll(pollId, optionIndex, username) ==
    /\ LET err == VotePollError(pollId, optionIndex, username)
       IN /\ heap' = IF err = ""
                     THEN [heap EXCEPT ![pollId] = PollRecordVote(@, optionIndex, username)]
                     ELSE heap
          /\ last' = Call("votePoll", err, pollId, optionIndex, username)
    /\ UNCHANGED <<users, store, handle, pending, serverVars>>

\* await repo.deletePoll(pollId)
RepoDeletePoll(pollId) ==
    /\ store' = StoreDelete(store, pollId)
    /\ last' = Call("repo.deletePoll", "", pollId, JSUndefined, <<>>)
    /\ UNCHANGED <<users, heap, handle, pending, serverVars>>

(***************************************************************************)
(* PollsManager                                                            *)
(***************************************************************************)
\* CreatePollError without the test options.length < 2
CreatePollError_NoLengthTest(question, options) ==
    IF ~Truthy(question) \/ TypeOf(question) # "string" \/ Len(Trim(question.s)) = 0
    THEN "Error: Poll question cannot be empty."
    ELSE IF \/ ~options.isArray
            \/ ~(\A n \in 1..Len(options.elems) :
                    /\ TypeOf(options.elems[n]) = "string"
                    /\ Len(Trim(options.elems[n].s)) # 0)
    THEN "Error: Poll must have at least 2 options."
    ELSE ""

\* the error createPoll throws before it constructs the Poll, "" when none
CreatePollError(question, options) ==
    IF ~Truthy(question) \/ TypeOf(question) # "string" \/ Len(Trim(question.s)) = 0
    THEN "Error: Poll question cannot be empty."
    ELSE IF \/ ~options.isArray
            \/ Len(options.elems) < 2
            \/ ~(\A n \in 1..Len(options.elems) :
                    /\ TypeOf(options.elems[n]) = "string"
                    /\ Len(Trim(options.elems[n].s)) # 0)
    THEN "Error: Poll must have at least 2 options."
    ELSE ""

\* the error createPoll throws: its own, or the one the Poll constructor throws
CreatePollThrows(question, options, creator) ==
    IF CreatePollError(question, options) # ""
    THEN CreatePollError(question, options)
    ELSE PollConstructorError(question, options, creator)

\* await pollsManager.createPoll(question, options, creator)
CreatePoll(question, options, creator) ==
    /\ LET err == CreatePollThrows(question, options, creator)
       IN /\ err = "" => Len(heap) < MaxCreated
          /\ heap' = IF err = ""
                     THEN Append(heap, PollConstructor(question, options, creator))
                     ELSE heap
          /\ store' = IF err = "" THEN StoreSet(store, Len(heap) + 1) ELSE store
          /\ last' = [Call("createPoll", err, IF err = "" THEN Len(heap) + 1 ELSE 0,
                           creator, <<>>)
                         EXCEPT !.args = <<question, options, creator>>]
    /\ UNCHANGED <<users, handle, pending, serverVars>>

\* VoteError taking any Poll object ever created, stored or not
VoteError_NoLookup(pollId, optionIndex, username) ==
    IF pollId \notin PollIds
    THEN "Error: Poll with ID not found."
    ELSE PollVoteError(heap[pollId], optionIndex, username)

\* VoteError with one vote per username over all polls
VoteError_OneVotePerUser(pollId, optionIndex, username) ==
    IF StoreGet(store, pollId) = 0
    THEN "Error: Poll with ID not found."
    ELSE IF \E other \in PollIds : username \in heap[other].voters
    THEN "Error: User has already voted in this poll."
    ELSE PollVoteError(heap[pollId], optionIndex, username)

\* the error PollsManager.vote throws, "" when none
VoteError(pollId, optionIndex, username) ==
    IF StoreGet(store, pollId) = 0
    THEN "Error: Poll with ID not found."
    ELSE PollVoteError(heap[pollId], optionIndex, username)

\* await pollsManager.vote(pollId, optionIndex, username)
Vote(pollId, optionIndex, username) ==
    /\ LET err == VoteError(pollId, optionIndex, username)
       IN /\ heap' = IF err = ""
                     THEN [heap EXCEPT ![pollId] = PollRecordVote(@, optionIndex, username)]
                     ELSE heap
          /\ last' = Call("vote", err, pollId, optionIndex, username)
    /\ UNCHANGED <<users, store, handle, pending, serverVars>>

\* ResultsSummary with a totalVotes of 0 whatever the poll's is
ResultsSummary_ZeroTotal(pollId) ==
    LET poll == heap[pollId]
        res == ResultsGetter(poll)
    IN [kind |-> "summary", id |-> pollId, live |-> IF res.live THEN {"results"} ELSE {},
        question |-> poll.question, totalVotes |-> 0,
        options |-> <<>>, results |-> res.value, voters |-> {}]

\* the object getResults returns: question and totalVotes are copied values,
\* results is whatever the results getter hands out
ResultsSummary(pollId) ==
    LET poll == heap[pollId]
        res == ResultsGetter(poll)
    IN [kind |-> "summary", id |-> pollId, live |-> IF res.live THEN {"results"} ELSE {},
        question |-> poll.question, totalVotes |-> poll.totalVotes,
        options |-> <<>>, results |-> res.value, voters |-> {}]

\* await pollsManager.getResults(pollId)
GetResults(pollId) ==
    /\ LET err == IF StoreGet(store, pollId) = 0 THEN "Error: Poll with ID not found." ELSE ""
       IN /\ handle' = IF err = "" THEN ResultsSummary(pollId) ELSE handle
          /\ last' = Call("getResults", err, pollId, JSUndefined, <<>>)
    /\ UNCHANGED <<users, heap, store, pending, serverVars>>

\* DeletePollError with the creator test left out
DeletePollError_NoCreatorTest(pollId, username) ==
    IF StoreGet(store, pollId) = 0
    THEN "Error: Poll with ID not found."
    ELSE ""

\* the error PollsManager.deletePoll throws, "" when none
DeletePollError(pollId, username) ==
    IF StoreGet(store, pollId) = 0
    THEN "Error: Poll with ID not found."
    ELSE IF heap[pollId].creator # username
    THEN "Error: Only the creator can delete this poll."
    ELSE ""

\* await pollsManager.deletePoll(pollId, username)
DeletePoll(pollId, username) ==
    /\ LET err == DeletePollError(pollId, username)
       IN /\ store' = IF err = "" THEN StoreDelete(store, pollId) ELSE store
          /\ last' = Call("deletePoll", err, pollId, JSUndefined, username)
    /\ UNCHANGED <<users, heap, handle, pending, serverVars>>

\* await pollsManager.getPoll(pollId): the Poll, or null (0)
GetPoll(pollId) == StoreGet(store, pollId)

\* await pollsManager.getPolls()
GetPolls == GetAllPolls

\* ListPollsByCreator without the filter
ListPollsByCreator_All(username) == GetAllPolls

\* await pollsManager.listPollsByCreator(username)
ListPollsByCreator(username) ==
    LET ByCreator(id) == heap[id].creator = username
    IN SelectSeq(GetAllPolls, ByCreator)   \* polls.filter(...)

\* ListPollsVotedByUser without the filter
ListPollsVotedByUser_All(username) == GetAllPolls

\* await pollsManager.listPollsVotedByUser(username)
ListPollsVotedByUser(username) ==
    LET VotedIn(id) == username \in VotersGetter(heap[id]).value
    IN SelectSeq(GetAllPolls, VotedIn)   \* polls.filter(...)

\* the identifiers a caller may pass: those handed out so far, and one never handed out
IdArgs == 0..Len(heap)

ServiceQuestionArgs == {JSStr(<<"q">>)}

ServiceOptionsArgs == {JSArray(<<JSStr(Tea), JSStr(Coffee)>>)}

ServiceCreatorArgs == {JSStr(alice), JSStr(bob), JSUndefined}

ServiceIndexArgs == {JSNum(1, 0), JSNum(2, 0)}

RequesterArgs == {alice, bob, <<" ", "a">>}

\* the service used to create, vote and delete
Next ==
    \/ \E q \in ServiceQuestionArgs, o \in ServiceOptionsArgs, c \in ServiceCreatorArgs :
          CreatePoll(q, o, c)
    \/ \E id \in IdArgs, i \in ServiceIndexArgs, u \in VoterArgs : Vote(id, i, u)
    \/ \E id \in IdArgs, u \in RequesterArgs : DeletePoll(id, u)

Spec == Init /\ [][Next]_vars

\* the service used to create, vote, delete and read results
NextResults ==
    \/ Next
    \/ \E id \in IdArgs : GetResults(id)

SpecResults == Init /\ [][NextResults]_vars

\* a repository that polls are added to, read from and voted in
NextStore ==
    \/ \E c \in {JSStr(alice), JSStr(bob)} :
          NewPollWithin(MaxAdded, JSStr(<<"q">>), JSArray(<<JSStr(Tea), JSStr(Coffee)>>), c)
    \/ \E id \in PollIds : AddPoll(APoll(id))
    \/ \E id \in IdArgs : AddPoll(NotAPoll(id))
    \/ \E id \in IdArgs : RepoGetPoll(id)
    \/ RepoGetAllPolls
    \/ \E id \in IdArgs, u \in VoterArgs : VotePoll(id, JSNum(1, 0), u)

SpecStore == Init /\ [][NextStore]_vars

\* a repository that polls are also deleted from
NextRepository ==
    \/ NextStore
    \/ \E id \in IdArgs : RepoDeletePoll(id)

SpecRepository == Init /\ [][NextRepository]_vars

(***************************************************************************)
(* Claims about the repository (SpecStore, SpecRepository)                 *)
(***************************************************************************)
\* the place of a stored poll in what getAllPolls returns
PlaceInStore(id) == CHOOSE n \in 1..Len(store) : store[n] = id

\* C22: addPoll is an upsert keyed by the poll's identifier: adding a Poll whose
\* identifier is present succeeds and leaves the number (and order) of stored polls
\* as it was, adding one whose identifier is absent appends it, getPoll(id) then
\* returns the Poll added, with the state it has; adding a value that is not a Poll
\* fails and leaves the store unchanged.
C22_AddPollIsUpsert ==
    [][last'.op = "addPoll"
       => LET value == last'.args[1]
              id == value.uuid
          IN /\ heap' = heap
             /\ IF value.isPoll
                THEN /\ last'.err = ""
                     /\ Stored(id) => store' = store
                     /\ ~Stored(id) => store' = Append(store, id)
                     /\ StoreGet(store', id) = id
                     /\ Cardinality({n \in 1..Len(store') : store'[n] = id}) = 1
                ELSE /\ last'.err = "Error: The provided object is not an instance of Poll."
                     /\ store' = store]_vars

\* a Poll is added again after it was voted in (votePoll needs it stored, and
\* nothing is removed under SpecStore)
C22_Witness ==
    /\ last.op = "addPoll"
    /\ last.err = ""
    /\ last.id = 1
    /\ heap[1].totalVotes = 1
    /\ store = <<1, 2>>

\* C23: deletePoll(id) of the repository never fails; with an id that is not stored
\* it leaves the store and every poll as they were, with a stored id it removes that
\* entry and no other, the others keeping their order.
C23_RemoveExactlyThatPoll ==
    [][last'.op = "repo.deletePoll"
       => LET id == last'.id
          IN /\ last'.err = ""
             /\ heap' = heap
             /\ ~Stored(id) => store' = store
             /\ Stored(id) =>
                   /\ Len(store') = Len(store) - 1
                   /\ StoreGet(store', id) = 0
                   /\ \A other \in PollIds \ {id} : StoreGet(store', other) = StoreGet(store, other)
                   /\ \A i, j \in 1..Len(store') :
                         i < j => PlaceInStore(store'[i]) < PlaceInStore(store'[j])]_vars

\* deletePoll('ghost') on a repository that holds two polls
C23_Witness ==
    /\ last.op = "repo.deletePoll"
    /\ last.id = 0
    /\ store = <<1, 2>>
    /\ heap[1].totalVotes = 1

(***************************************************************************)
(* The queries, as calls; last.args is the array of Poll objects returned  *)
(* (their identifiers, in the order of the array), for getPoll the array   *)
(* of the one Poll returned, empty for null                                *)
(***************************************************************************)
Returned(op, id, name, polls) ==
    [Call(op, "", id, JSUndefined, name) EXCEPT !.args = polls]

\* await pollsManager.getPoll(pollId)
QueryPoll(pollId) ==
    /\ last' = Returned("getPoll", pollId, <<>>,
                        IF GetPoll(pollId) = 0 THEN <<>> ELSE <<GetPoll(pollId)>>)
    /\ UNCHANGED <<users, heap, store, handle, pending, serverVars>>

\* await pollsManager.getPolls()
QueryPolls ==
    /\ last' = Returned("getPolls", 0, <<>>, GetPolls)
    /\ UNCHANGED <<users, heap, store, handle, pending, serverVars>>

\* await pollsManager.listPollsByCreator(username)
QueryByCreator(username) ==
    /\ last' = Returned("listPollsByCreator", 0, username, ListPollsByCreator(username))
    /\ UNCHANGED <<users, heap, store, handle, pending, serverVars>>

\* await pollsManager.listPollsVotedByUser(username)
QueryVotedByUser(username) ==
    /\ last' = Returned("listPollsVotedByUser", 0, username, ListPollsVotedByUser(username))
    /\ UNCHANGED <<users, heap, store, handle, pending, serverVars>>

\* the service and the registry, every operation of them but getResults
NextService ==
    \/ \E c \in {JSStr(alice), JSStr(bob)} :
          CreatePoll(JSStr(<<"q">>), JSArray(<<JSStr(Tea), JSStr(Coffee)>>), c)
    \/ \E id \in IdArgs, u \in VoterArgs : Vote(id, JSNum(1, 0), u)
    \/ \E id \in IdArgs, u \in VoterArgs : DeletePoll(id, u)
    \/ \E id \in IdArgs : QueryPoll(id)
    \/ QueryPolls
    \/ \E u \in VoterArgs : QueryByCreator(u)
    \/ \E u \in VoterArgs : QueryVotedByUser(u)
    \/ CreateUser(JSStr(alice))

SpecService == Init /\ [][NextService]_vars

\* the life of polls: created, voted on, read and deleted through the service
NextLifecycle ==
    \/ \E c \in {JSStr(alice), JSStr(bob)} :
          CreatePoll(JSStr(<<"q">>), JSArray(<<JSStr(Tea), JSStr(Coffee)>>), c)
    \/ \E id \in IdArgs : Vote(id, JSNum(1, 0), bob)
    \/ \E id \in IdArgs, u \in VoterArgs : DeletePoll(id, u)
    \/ \E id \in IdArgs : GetResults(id)
    \/ \E id \in IdArgs : QueryPoll(id)
    \/ QueryPolls
    \/ QueryByCreator(alice)
    \/ QueryVotedByUser(bob)

SpecLifecycle == Init /\ [][NextLifecycle]_vars

CreateQuestionArgs ==
    {JSStr(<<"q">>), JSStr(<<" ", "q", " ">>), JSStr(<<" ">>), JSStr(<<>>), JSNum(1, 0)}

CreateOptionsArgs ==
    {JSArray(<<JSStr(Tea), JSStr(Coffee)>>),
     JSArray(<<JSStr(Coffee), JSStr(Tea)>>),
     JSArray(<<JSStr(Tea)>>),
     JSArray(<<JSStr(Tea), JSStr(<<" ">>)>>),
     JSArray(<<JSStr(Tea), JSNum(2, 0)>>),
     NotAnArray}

CreateCreatorArgs == {JSStr(alice), JSStr(<<" ">>), JSUndefined}

\* the service used to create polls with every kind of argument, and to delete them
NextCreate ==
    \/ \E q \in CreateQuestionArgs, o \in CreateOptionsArgs, c \in CreateCreatorArgs :
          CreatePoll(q, o, c)
    \/ \E id \in IdArgs : DeletePoll(id, alice)

SpecCreate == Init /\ [][NextCreate]_vars

(***************************************************************************)
(* Claims about the service (Spec, SpecResults)                            *)
(***************************************************************************)
\* the text is empty or white space only
Blank(text) == \A n \in 1..Len(text) : text[n] \in {" ", "\t", "\n"}

\* question is not a non-blank text, or options is not an array of at least 2 non-blank texts
BadQuestionOrOptions(question, options) ==
    \/ question.t # "string"
    \/ Blank(question.s)
    \/ ~options.isArray
    \/ Len(options.elems) < 2
    \/ \E n \in 1..Len(options.elems) :
          options.elems[n].t # "string" \/ Blank(options.elems[n].s)

\* what a createPoll that succeeds does: one new poll, stored last, without votes
CreatedOnePoll(options, creator) ==
    LET id == Len(heap) + 1
    IN /\ last'.err = ""
       /\ last'.id = id
       /\ Len(heap') = id
       /\ \A other \in PollIds : heap'[other] = heap[other]
       /\ store' = Append(store, id)
       /\ ~Stored(id)
       /\ heap'[id].totalVotes = 0
       /\ heap'[id].voters = {}
       /\ \A k \in DOMAIN heap'[id].results : heap'[id].results[k] = 0
       /\ DOMAIN heap'[id].results = {options.elems[n].s : n \in 1..Len(options.elems)}
       /\ heap'[id].creator = creator.s
       /\ heap'[id].options = [n \in 1..Len(options.elems) |-> options.elems[n].s]

\* C12 as stated: createPoll fails and leaves the store unchanged when question or
\* options is bad, and otherwise adds exactly one new poll without votes, with the
\* given creator and the given options in the given order.
C12_CreatePollFailsOnQuestionOrOptionsOnly ==
    [][last'.op = "createPoll"
       => LET question == last'.args[1]
              options == last'.args[2]
              creator == last'.args[3]
          IN IF BadQuestionOrOptions(question, options)
             THEN last'.err # "" /\ store' = store /\ heap' = heap
             ELSE CreatedOnePoll(options, creator)]_vars

\* C12 as amended: createPoll also fails, and leaves the store unchanged, when
\* creator is not a text or is blank; in every other case it adds the one new poll.
C12_CreatePollValidatesThenStores ==
    [][last'.op = "createPoll"
       => LET question == last'.args[1]
              options == last'.args[2]
              creator == last'.args[3]
          IN IF \/ BadQuestionOrOptions(question, options)
                \/ creator.t # "string"
                \/ Blank(creator.s)
             THEN last'.err # "" /\ store' = store /\ heap' = heap
             ELSE CreatedOnePoll(options, creator)]_vars

C12_Witness ==
    /\ last.op = "createPoll"
    /\ last.err = ""
    /\ last.args[2] = JSArray(<<JSStr(Coffee), JSStr(Tea)>>)
    /\ store = <<2>>
    /\ heap[2].options = <<Coffee, Tea>>
    /\ heap[2].results[Tea] = 0
    /\ heap[2].creator = alice

\* C4: deletePoll(id, u) on a stored poll removes it if and only if u is the poll's
\* creator; otherwise it fails with 'Only the creator can delete this poll.', store
\* and polls are unchanged and getPoll(id) still returns the poll.
C4_OnlyCreatorDeletes ==
    [][(last'.op = "deletePoll" /\ Stored(last'.id))
       => LET id == last'.id
              u == last'.name
          IN /\ StoreGet(store', id) = 0 <=> u = heap[id].creator
             /\ u # heap[id].creator
                  => /\ last'.err = "Error: Only the creator can delete this poll."
                     /\ store' = store
                     /\ heap' = heap
                     /\ StoreGet(store', id) = id
             /\ u = heap[id].creator
                  => /\ last'.err = ""
                     /\ heap' = heap
                     /\ \A other \in PollIds \ {id} :
                           StoreGet(store', other) = StoreGet(store, other)]_vars

C4_Witness ==
    /\ last.op = "deletePoll"
    /\ last.err = "Error: Only the creator can delete this poll."
    /\ last.name = <<" ", "a">>
    /\ Stored(last.id)
    /\ heap[last.id].creator = alice
    /\ heap[last.id].totalVotes = 1
    /\ Len(store) = 1 /\ Len(heap) = 2

\* C13: vote(pollId, position, voter) fails with the not-found error when no poll
\* with pollId is stored, and then neither the store nor any poll changes; on a
\* stored poll its outcome and its effect are those of the poll's own vote.
C13_VoteNotFoundOrDelegates ==
    [][last'.op = "vote"
       => LET id == last'.id
          IN /\ store' = store
             /\ IF ~Stored(id)
                THEN /\ last'.err = "Error: Poll with ID not found."
                     /\ heap' = heap
                ELSE LET err == PollVoteError(heap[id], last'.arg, last'.name)
                     IN /\ last'.err = err
                        /\ \A other \in PollIds \ {id} : heap'[other] = heap[other]
                        /\ heap'[id] = IF err = ""
                                       THEN PollRecordVote(heap[id], last'.arg, last'.name)
                                       ELSE heap[id]]_vars

C13_Witness ==
    /\ last.op = "vote"
    /\ last.err = "Error: Poll with ID not found."
    /\ last.id \in PollIds
    /\ ~Stored(last.id)
    /\ heap[last.id].voters = {bob}
    /\ last.name = alice
    /\ last.arg = JSNum(1, 0)

\* C15: a poll's identifier, question, creator and option list (contents and order)
\* are fixed at creation: no createPoll, vote, deletePoll, query or registry
\* operation changes them on any Poll object, stored or deleted, and a stored poll
\* stays stored under its identifier until it is deleted.
C15_IdentityFixedAtCreation ==
    [][/\ \A id \in PollIds :
             /\ id \in 1..Len(heap')
             /\ heap'[id].question = heap[id].question
             /\ heap'[id].creator = heap[id].creator
             /\ heap'[id].options = heap[id].options
       /\ \A n \in 1..Len(store') : store'[n] \in 1..Len(heap')
       /\ \A n \in 1..Len(store) :
             last'.op # "deletePoll" => Stored(store[n])']_vars

C15_Witness ==
    /\ last.op = "listPollsVotedByUser"
    /\ last.args = <<2>>
    /\ users = {alice}
    /\ store = <<2>>
    /\ heap[1].totalVotes = 1
    /\ heap[2].totalVotes = 2
    /\ heap[2].creator = bob
    /\ heap[2].options = <<Tea, Coffee>>

\* C16: the tally, totalVotes and voters of a poll change only in a successful vote
\* on that very poll; every other operation, votes on other polls included, leaves
\* them as they were.  A username that has voted in one poll can still vote, once,
\* in every other stored poll.
C16_VoteStateChangesOnlyByOwnVote ==
    [][/\ \A id \in PollIds :
             (\/ heap'[id].results # heap[id].results
              \/ heap'[id].totalVotes # heap[id].totalVotes
              \/ heap'[id].voters # heap[id].voters)
             => (last'.op = "vote" /\ last'.id = id /\ last'.err = "")
       /\ (/\ last'.op = "vote"
           /\ Stored(last'.id)
           /\ last'.arg \in Positions(Len(heap[last'.id].options))
           /\ last'.name \notin heap[last'.id].voters)
          => (last'.err = "" /\ last'.name \in heap'[last'.id].voters)]_vars

C16_Witness ==
    /\ last.op = "vote"
    /\ last.err = ""
    /\ last.id = 2
    /\ last.name = alice
    /\ heap[1].voters = {alice, bob}
    /\ heap[2].voters = {alice}
    /\ heap[1].totalVotes = 2
    /\ heap[2].totalVotes = 1

\* the Poll objects that were stored once and are stored no more (every Poll of the
\* service is stored by the createPoll that constructs it)
Deleted == {id \in PollIds : ~Stored(id)}

\* id is an element of the array of polls
InArray(id, polls) == \E n \in 1..Len(polls) : polls[n] = id

\* C17: a poll leaves the store only in a successful deletePoll on it by its creator,
\* and never returns: from then on getPoll(id) gives null, getPolls,
\* listPollsByCreator and listPollsVotedByUser do not contain it, and vote,
\* getResults and deletePoll with its id fail with the not-found error.
C17_DeletedForGood ==
    [][/\ \A id \in PollIds :
             /\ ~Stored(id) => ~Stored(id)'
             /\ (Stored(id) /\ ~Stored(id)')
                  => /\ last' = Call("deletePoll", "", id, JSUndefined, heap[id].creator)
                     /\ StoreGet(store', id) = 0
       /\ \A id \in Deleted' :
             /\ last'.op = "getPoll" /\ last'.id = id => last'.args = <<>>
             /\ last'.op \in {"getPolls", "listPollsByCreator", "listPollsVotedByUser"}
                  => ~InArray(id, last'.args)
             /\ (last'.op \in {"vote", "getResults", "deletePoll"} /\ last'.id = id /\ id \in Deleted)
                  => last'.err = "Error: Poll with ID not found."]_vars

C17_Witness ==
    /\ last.op = "listPollsVotedByUser"
    /\ last.name = bob
    /\ last.args = <<2>>
    /\ Deleted = {1}
    /\ bob \in heap[1].voters
    /\ heap[1].creator = alice
    /\ handle.kind = "summary" /\ handle.id = 1

\* C10: the value getResults returned is an immutable snapshot: question, totalVotes
\* and the per-option counts read from it stay what they were when it was returned.
C10_ResultsSnapshotImmutable ==
    handle.kind = "summary" => SeenResults = handle.results

\* C19: getResults(pollId) fails with the not-found error when no poll with pollId
\* is stored; otherwise it returns the poll's question, totalVotes and tally as they
\* are at the time of the call, and changes nothing.
C19_ResultsAsOfTheCall ==
    [][last'.op = "getResults"
       => LET id == last'.id
          IN /\ heap' = heap
             /\ store' = store
             /\ IF ~Stored(id)
                THEN /\ last'.err = "Error: Poll with ID not found."
                     /\ handle' = handle
                ELSE /\ last'.err = ""
                     /\ handle'.kind = "summary"
                     /\ handle'.question = heap[id].question
                     /\ handle'.totalVotes = heap[id].totalVotes
                     /\ SeenResults' = heap[id].results]_vars

\* createPoll('q', ['T', 'C'], alice), vote(id, 1, bob), getResults(id)
C19_Witness ==
    /\ last.op = "getResults"
    /\ last.err = ""
    /\ heap[last.id].creator = alice
    /\ heap[last.id].voters = {bob}
    /\ handle.id = last.id
    /\ handle.question = <<"q">>
    /\ handle.totalVotes = 1
    /\ SeenResults = [k \in {Tea, Coffee} |-> IF k = Coffee THEN 1 ELSE 0]

\* C20: listPollsByCreator(username) returns exactly the stored polls whose creator
\* is username, each once, in the relative order in which getAllPolls returns
\* them; it changes nothing.
C20_ListByCreatorExactInStoreOrder ==
    [][last'.op = "listPollsByCreator"
       => LET polls == last'.args
              username == last'.name
          IN /\ heap' = heap
             /\ store' = store
             /\ \A n \in 1..Len(polls) :
                   Stored(polls[n]) /\ heap[polls[n]].creator = username
             /\ \A n \in 1..Len(store) :
                   heap[store[n]].creator = username => InArray(store[n], polls)
             /\ \A i, j \in 1..Len(polls) :
                   i < j => PlaceInStore(polls[i]) < PlaceInStore(polls[j])]_vars

C20_Witness ==
    /\ last.op = "listPollsByCreator"
    /\ last.name = bob
    /\ last.args = <<2>>
    /\ store = <<1, 2>>
    /\ heap[1].creator = alice
    /\ heap[2].creator = bob

\* C21: listPollsVotedByUser(username) returns exactly the stored polls that have
\* username among their voters, each once, and changes nothing; a vote that fails
\* changes the result for no username.
C21_ListVotedExact ==
    [][/\ last'.op = "listPollsVotedByUser"
          => LET polls == last'.args
                 username == last'.name
             IN /\ heap' = heap
                /\ store' = store
                /\ \A id \in PollIds :
                      InArray(id, polls) <=> (Stored(id) /\ username \in heap[id].voters)
                /\ \A i, j \in 1..Len(polls) : i # j => polls[i] # polls[j]
       /\ (last'.op = "vote" /\ last'.err # "")
          => \A username \in VoterArgs :
                ListPollsVotedByUser(username)' = ListPollsVotedByUser(username)]_vars

C21_Witness ==
    /\ last.op = "listPollsVotedByUser"
    /\ last.name = alice
    /\ last.args = <<2>>
    /\ store = <<1, 2>>
    /\ heap[1].voters = {bob}
    /\ heap[2].voters = {alice, bob}

(***************************************************************************)
(* A caller that keeps what a read accessor returned and writes to it      *)
(***************************************************************************)
\* poll.options
ReadOptions(id) ==
    /\ id \in PollIds
    /\ LET got == OptionsGetter(heap[id])
       IN handle' = [NoHandle EXCEPT !.kind = "options", !.id = id,
                                     !.live = IF got.live THEN {"options"} ELSE {},
                                     !.options = got.value]
    /\ last' = Call("get options", "", id, JSUndefined, <<>>)
    /\ UNCHANGED <<users, heap, store, pending, serverVars>>

\* poll.results
ReadResults(id) ==
    /\ id \in PollIds
    /\ LET got == ResultsGetter(heap[id])
       IN handle' = [NoHandle EXCEPT !.kind = "results", !.id = id,
                                     !.live = IF got.live THEN {"results"} ELSE {},
                                     !.results = got.value]
    /\ last' = Call("get results", "", id, JSUndefined, <<>>)
    /\ UNCHANGED <<users, heap, store, pending, serverVars>>

\* poll.voters
ReadVoters(id) ==
    /\ id \in PollIds
    /\ LET got == VotersGetter(heap[id])
       IN handle' = [NoHandle EXCEPT !.kind = "voters", !.id = id,
                                     !.live = IF got.live THEN {"voters"} ELSE {},
                                     !.voters = got.value]
    /\ last' = Call("get voters", "", id, JSUndefined, <<>>)
    /\ UNCHANGED <<users, heap, store, pending, serverVars>>

\* poll.toJSON(): options and results are what the two getters return
ToJSON(id) ==
    /\ id \in PollIds
    /\ LET opts == OptionsGetter(heap[id])
           res == ResultsGetter(heap[id])
       IN handle' = [NoHandle EXCEPT !.kind = "json", !.id = id,
                                     !.live = (IF opts.live THEN {"options"} ELSE {})
                                              \cup (IF res.live THEN {"results"} ELSE {}),
                                     !.question = heap[id].question,
                                     !.totalVotes = heap[id].totalVotes,
                                     !.options = opts.value,
                                     !.results = res.value]
    /\ last' = Call("toJSON", "", id, JSUndefined, <<>>)
    /\ UNCHANGED <<users, heap, store, pending, serverVars>>

\* the caller: got.push(text), on an option array it was handed
CallerPush(text) ==
    /\ handle.kind \in {"options", "json"}
    /\ Len(SeenOptions) < MaxOptions
    /\ IF "options" \in handle.live
       THEN /\ heap' = [heap EXCEPT ![handle.id].options = Append(@, text)]
            /\ UNCHANGED handle
       ELSE /\ handle' = [handle EXCEPT !.options = Append(@, text)]
            /\ UNCHANGED heap
    /\ last' = Call("caller: push", "", handle.id, JSUndefined, text)
    /\ UNCHANGED <<users, store, pending, serverVars>>

\* the caller: got[key] = n, on a tally it was handed
CallerWrite(key, n) ==
    /\ handle.kind \in {"results", "json"}
    /\ IF "results" \in handle.live
       THEN /\ heap' = [heap EXCEPT ![handle.id].results = ObjAssign(@, key, n)]
            /\ UNCHANGED handle
       ELSE /\ handle' = [handle EXCEPT !.results = ObjAssign(@, key, n)]
            /\ UNCHANGED heap
    /\ last' = Call("caller: write", "", handle.id, JSNum(n, 0), key)
    /\ UNCHANGED <<users, store, pending, serverVars>>

\* the caller: got.add(username), on a voter set it was handed
CallerAdd(username) ==
    /\ handle.kind = "voters"
    /\ IF "voters" \in handle.live
       THEN /\ heap' = [heap EXCEPT ![handle.id].voters = @ \cup {username}]
            /\ UNCHANGED handle
       ELSE /\ handle' = [handle EXCEPT !.voters = @ \cup {username}]
            /\ UNCHANGED heap
    /\ last' = Call("caller: add", "", handle.id, JSUndefined, username)
    /\ UNCHANGED <<users, store, pending, serverVars>>

AccessorOptionsArgs == {JSArray(<<JSStr(Tea), JSStr(Coffee)>>)}

NextAccessor ==
    \/ \E o \in AccessorOptionsArgs, c \in CreatorArgs : NewPoll(JSStr(<<"q">>), o, c)
    \/ \E id \in PollIds, i \in IndexArgs, u \in VoterArgs : PollVote(id, i, u)
    \/ \E id \in PollIds : ReadOptions(id)
    \/ \E id \in PollIds : ReadResults(id)
    \/ \E id \in PollIds : ReadVoters(id)
    \/ \E id \in PollIds : ToJSON(id)
    \/ CallerPush(Tea)
    \/ CallerWrite(Coffee, 7)
    \/ \E u \in VoterArgs : CallerAdd(u)

SpecAccessor == Init /\ [][NextAccessor]_vars

\* C9: writing to what options, results (tally) or voters returned leaves the
\* poll's own options, tally, totalVotes and voters as they were.
C9_AccessorsGiveNoWriteAccess ==
    [][last'.op \in {"caller: push", "caller: write", "caller: add"} => heap' = heap]_vars

(***************************************************************************)
(* Conversions the routes apply to what a request carries                  *)
(***************************************************************************)
Digits == <<"0", "1", "2", "3", "4", "5", "6", "7", "8", "9">>

IsDigit(c) == \E n \in 1..10 : Digits[n] = c

DigitValue(c) == (CHOOSE n \in 1..10 : Digits[n] = c) - 1

RECURSIVE DigitPrefix(_)
\* the longest prefix of s made of decimal digits
DigitPrefix(s) ==
    IF s # <<>> /\ IsDigit(Head(s)) THEN <<Head(s)>> \o DigitPrefix(Tail(s)) ELSE <<>>

\* s without its first n characters
Drop(s, n) == SubSeq(s, n + 1, Len(s))

RECURSIVE DigitsValue(_, _)
DigitsValue(s, acc) ==
    IF s = <<>> THEN acc ELSE DigitsValue(Tail(s), 10 * acc + DigitValue(Head(s)))

RECURSIVE NatToString(_)
NatToString(n) ==
    IF n < 10 THEN <<Digits[n + 1]>> ELSE NatToString(n \div 10) \o <<Digits[(n % 10) + 1]>>

\* String(v), for the values a JSON body can carry
ToStringJS(v) ==
    CASE v.t = "string" -> v.s
      [] v.t = "null" -> <<"n", "u", "l", "l">>
      [] v.t = "undefined" -> <<"u", "n", "d", "e", "f", "i", "n", "e", "d">>
      [] v.t = "number" /\ IsNaNValue(v) -> <<"N", "a", "N">>
      [] v.t = "number" /\ v.f = 0 /\ v.i >= 0 -> NatToString(v.i)
      [] v.t = "number" /\ v.f = 0 /\ v.i < 0 -> <<"-">> \o NatToString(-v.i)
      [] v.t = "number" /\ v.f # 0 /\ v.i >= 0 -> NatToString(v.i) \o <<".">> \o NatToString(v.f)
      [] OTHER -> <<"-">> \o NatToString(-v.i - 1) \o <<".">> \o NatToString(10 - v.f)

\* parseInt(v, 10): white space, a sign, then the longest run of decimal digits
ParseInt10(v) ==
    LET str == TrimStart(ToStringJS(v))
        signed == str # <<>> /\ Head(str) \in {"+", "-"}
        body == IF signed THEN Tail(str) ELSE str
        digits == DigitPrefix(body)
    IN IF digits = <<>>
       THEN JSNaN
       ELSE JSNum((IF signed /\ Head(str) = "-" THEN -1 ELSE 1) * DigitsValue(digits, 0), 0)

\* s is a digit sequence of the given radix characters, at least one long
AllIn(s, chars) == s # <<>> /\ \A n \in 1..Len(s) : s[n] \in chars

HexDigits ==
    {Digits[n] : n \in 1..10} \cup {"a", "b", "c", "d", "e", "f", "A", "B", "C", "D", "E", "F"}

\* the exponent part of a decimal literal, or nothing
IsExponentOrEmpty(s) ==
    \/ s = <<>>
    \/ /\ Head(s) \in {"e", "E"}
       /\ LET x == Tail(s)
              y == IF x # <<>> /\ Head(x) \in {"+", "-"} THEN Tail(x) ELSE x
          IN AllIn(y, {Digits[n] : n \in 1..10})

\* s (already trimmed) is a StringNumericLiteral: Number(s) is not NaN
IsNumericString(s) ==
    \/ s = <<>>
    \/ /\ Len(s) >= 3 /\ s[1] = "0" /\ s[2] \in {"x", "X"}
       /\ AllIn(Drop(s, 2), HexDigits)
    \/ /\ Len(s) >= 3 /\ s[1] = "0" /\ s[2] \in {"b", "B"}
       /\ AllIn(Drop(s, 2), {"0", "1"})
    \/ /\ Len(s) >= 3 /\ s[1] = "0" /\ s[2] \in {"o", "O"}
       /\ AllIn(Drop(s, 2), {Digits[n] : n \in 1..8})
    \/ LET body == IF Head(s) \in {"+", "-"} THEN Tail(s) ELSE s
           int == DigitPrefix(body)
           r1 == Drop(body, Len(int))
           dotted == r1 # <<>> /\ Head(r1) = "."
           frac == IF dotted THEN DigitPrefix(Tail(r1)) ELSE <<>>
           r2 == IF dotted THEN Drop(r1, 1 + Len(frac)) ELSE r1
       IN \/ body = <<"I", "n", "f", "i", "n", "i", "t", "y">>
          \/ /\ int # <<>> \/ frac # <<>>
             /\ IsExponentOrEmpty(r2)

\* the global isNaN(v): Number(v) is NaN
GlobalIsNaN(v) ==
    CASE v.t = "undefined" -> TRUE
      [] v.t = "null" -> FALSE
      [] v.t = "number" -> IsNaNValue(v)
      [] OTHER -> ~IsNumericString(Trim(v.s))

\* !username || typeof username !== 'string' || username.trim().length === 0
BadUsername(username) ==
    ~Truthy(username) \/ TypeOf(username) # "string" \/ Len(Trim(username.s)) = 0

(***************************************************************************)
(* The routes (mounted under /api), on the two singletons pollsManager and *)
(* userManager                                                             *)
(***************************************************************************)
Response(op, status, err, id, arg, name) ==
    [op |-> op, err |-> err, id |-> id, arg |-> arg, name |-> name, status |-> status,
     args |-> <<>>]

\* POST /users, body {username}
PostUsers(username) ==
    /\ IF BadUsername(username)
       THEN /\ last' = Response("POST /users", 400, "Username must be a non-empty string.",
                                0, username, <<>>)
            /\ UNCHANGED users
       ELSE LET name == JSStr(Trim(username.s))
                err == CreateUserError(users, name)
            IN /\ err = "" => Cardinality(users) < MaxUsers
               /\ users' = IF err = "" THEN users \cup {name.s} ELSE users
               /\ last' = Response("POST /users", IF err = "" THEN 201 ELSE 400, err,
                                   0, username, name.s)
    /\ UNCHANGED <<heap, store, handle, pending, serverVars>>

\* options.map(o => o.trim())
TrimAll(options) ==
    JSArray([n \in 1..Len(options.elems) |-> JSStr(Trim(options.elems[n].s))])

\* PostPollsError without the look-up of the creator in the registry
PostPollsError_NoRegistryLookup(question, options, username) ==
    IF ~Truthy(question) \/ TypeOf(question) # "string" \/ Len(Trim(question.s)) = 0
    THEN "Poll question cannot be empty."
    ELSE IF \/ ~options.isArray
            \/ Len(options.elems) < 2
            \/ ~(\A n \in 1..Len(options.elems) :
                    /\ TypeOf(options.elems[n]) = "string"
                    /\ Len(Trim(options.elems[n].s)) # 0)
    THEN "Poll must have at least 2 non-empty options."
    ELSE IF BadUsername(username)
    THEN "Username must be a non-empty string."
    ELSE CreatePollThrows(JSStr(Trim(question.s)), TrimAll(options), JSStr(Trim(username.s)))

\* the error POST /polls answers 400 with, "" when it answers 201
PostPollsError(question, options, username) ==
    IF ~Truthy(question) \/ TypeOf(question) # "string" \/ Len(Trim(question.s)) = 0
    THEN "Poll question cannot be empty."
    ELSE IF \/ ~options.isArray
            \/ Len(options.elems) < 2
            \/ ~(\A n \in 1..Len(options.elems) :
                    /\ TypeOf(options.elems[n]) = "string"
                    /\ Len(Trim(options.elems[n].s)) # 0)
    THEN "Poll must have at least 2 non-empty options."
    ELSE IF BadUsername(username)
    THEN "Username must be a non-empty string."
    ELSE IF ~UserExists(users, Trim(username.s))
    THEN "User does not exist. Please create the user first."
    ELSE CreatePollThrows(JSStr(Trim(question.s)), TrimAll(options), JSStr(Trim(username.s)))

\* POST /polls, body {question, options, username}
PostPolls(question, options, username) ==
    /\ LET err == PostPollsError(question, options, username)
       IN /\ err = "" => Len(heap) < MaxPosted
          /\ heap' = IF err = ""
                     THEN Append(heap, PollConstructor(JSStr(Trim(question.s)), TrimAll(options),
                                                       JSStr(Trim(username.s))))
                     ELSE heap
          /\ store' = IF err = "" THEN StoreSet(store, Len(heap) + 1) ELSE store
          /\ last' = Response("POST /polls", IF err = "" THEN 201 ELSE 400, err,
                              IF err = "" THEN Len(heap) + 1 ELSE 0, username, <<>>)
    /\ UNCHANGED <<users, handle, pending, serverVars>>

\* the voter name POST /polls/:id/vote passes on, as given and not trimmed
VoteRouteUsername_Raw(username) == username.s

\* the voter name POST /polls/:id/vote passes on: username.trim()
VoteRouteUsername(username) == Trim(username.s)

\* the error POST /polls/:id/vote answers 400 with, "" when it answers 200
PostVoteError(id, option, username) ==
    IF BadUsername(username)
    THEN "Username must be a non-empty string."
    ELSE IF GlobalIsNaN(option)
    THEN "Option must be a valid number."
    ELSE VoteError(id, ParseInt10(option), VoteRouteUsername(username))

\* POST /polls/:id/vote, body {option, username}
PostVote(id, option, username) ==
    /\ LET err == PostVoteError(id, option, username)
       IN /\ heap' = IF err = ""
                     THEN [heap EXCEPT ![id] = PollRecordVote(@, ParseInt10(option),
                                                              VoteRouteUsername(username))]
                     ELSE heap
          /\ last' = Response("POST /polls/:id/vote", IF err = "" THEN 200 ELSE 400, err,
                              id, option, IF BadUsername(username) THEN <<>> ELSE username.s)
    /\ UNCHANGED <<users, store, handle, pending, serverVars>>

\* IncludesNotFound finding the words in no message
IncludesNotFound_Never(message) == FALSE

\* err.message.includes('not found')
IncludesNotFound(message) == message = "Error: Poll with ID not found."

\* err.message.includes('Only the creator')
IncludesOnlyTheCreator(message) == message = "Error: Only the creator can delete this poll."

\* DELETE /polls/:id, body {username}
DeleteRoute(id, username) ==
    /\ IF BadUsername(username)
       THEN /\ last' = Response("DELETE /polls/:id", 400, "Username must be a non-empty string.",
                                id, username, <<>>)
            /\ UNCHANGED store
       ELSE LET err == DeletePollError(id, Trim(username.s))
                status == IF err = "" THEN 200
                          ELSE IF IncludesNotFound(err) THEN 404
                          ELSE IF IncludesOnlyTheCreator(err) THEN 403
                          ELSE 400
            IN /\ store' = IF err = "" THEN StoreDelete(store, id) ELSE store
               /\ last' = Response("DELETE /polls/:id", status, err, id, username, <<>>)
    /\ UNCHANGED <<users, heap, handle, pending, serverVars>>

\* GET /polls
GetPollsRoute ==
    /\ last' = Response("GET /polls", 200,
                        IF Len(GetPolls) = 0 THEN "No polls available." ELSE "",
                        0, JSUndefined, <<>>)
    /\ UNCHANGED <<users, heap, store, handle, pending, serverVars>>

\* GET /polls/creator?username=
GetPollsCreatorRoute(username) ==
    /\ last' = IF BadUsername(username)
               THEN Response("GET /polls/creator", 400,
                             "Username must be provided as a query parameter.", 0, username, <<>>)
               ELSE IF Len(ListPollsByCreator(Trim(username.s))) = 0
               THEN Response("GET /polls/creator", 404, "No polls found for user.", 0, username, <<>>)
               ELSE Response("GET /polls/creator", 200, "", 0, username, <<>>)
    /\ UNCHANGED <<users, heap, store, handle, pending, serverVars>>

\* GET /polls/voter?username=
GetPollsVoterRoute(username) ==
    /\ last' = IF BadUsername(username)
               THEN Response("GET /polls/voter", 400,
                             "Username must be provided as a query parameter.", 0, username, <<>>)
               ELSE IF Len(ListPollsVotedByUser(Trim(username.s))) = 0
               THEN Response("GET /polls/voter", 404, "No polls found that user has voted in.",
                             0, username, <<>>)
               ELSE Response("GET /polls/voter", 200, "", 0, username, <<>>)
    /\ UNCHANGED <<users, heap, store, handle, pending, serverVars>>

BodyUsernameArgs == {JSStr(alice), JSStr(bob), JSStr(<<" ", "a">>), JSUndefined}

BodyQuestionArgs == {JSStr(<<"q", " ">>), JSStr(<<>>)}

BodyOptionsArgs ==
    {JSArray(<<JSStr(Tea), JSStr(Coffee)>>),
     JSArray(<<JSStr(Tea), JSStr(<<" ">>)>>)}

BodyOptionArgs == {JSNum(1, 0), JSNum(2, 0), JSStr(<<"x">>), JSUndefined}

NextHttp ==
    \/ \E u \in BodyUsernameArgs : PostUsers(u)
    \/ \E q \in BodyQuestionArgs, o \in BodyOptionsArgs, u \in BodyUsernameArgs : PostPolls(q, o, u)
    \/ \E id \in IdArgs, o \in BodyOptionArgs, u \in BodyUsernameArgs : PostVote(id, o, u)
    \/ \E id \in IdArgs, u \in BodyUsernameArgs : DeleteRoute(id, u)
    \/ GetPollsRoute
    \/ \E u \in BodyUsernameArgs : GetPollsCreatorRoute(u)
    \/ \E u \in BodyUsernameArgs : GetPollsVoterRoute(u)

SpecHttp == Init /\ [][NextHttp]_vars

(***************************************************************************)
(* Claims about the routes (SpecHttp)                                      *)
(***************************************************************************)
\* C5 as stated: only registered users cast votes, so every username in a poll's
\* voters is in the registry.
C5_OnlyRegisteredUsersVote ==
    \A id \in PollIds : heap[id].voters \subseteq users

\* C5 as amended: the vote route does not consult the registry; every username in
\* a poll's voters is a non-empty string without surrounding white space.
C5_VotersAreTrimmedNonEmptyNames ==
    \A id \in PollIds :
        \A u \in heap[id].voters :
            /\ u # <<>>
            /\ u[1] \notin {" ", "\t", "\n"}
            /\ u[Len(u)] \notin {" ", "\t", "\n"}

C5_Witness ==
    /\ last.op = "POST /polls/:id/vote"
    /\ last.status = 200
    /\ last.name = <<" ", "a">>
    /\ alice \in heap[last.id].voters
    /\ alice \notin users

\* C6: with polls created through POST /polls only, every stored poll's creator is
\* registered; a POST /polls whose trimmed username is not registered answers 400
\* and leaves the store (and every poll) unchanged.
C6_HttpCreatorsAreRegistered ==
    [][/\ \A n \in 1..Len(store') : heap'[store'[n]].creator \in users'
       /\ (/\ last'.op = "POST /polls"
           /\ last'.arg.t = "string" => Trim(last'.arg.s) \notin users)
            => (last'.status = 400 /\ store' = store /\ heap' = heap)]_vars

C6_Witness ==
    /\ last.op = "POST /polls"
    /\ last.status = 400
    /\ last.err = "User does not exist. Please create the user first."
    /\ last.arg = JSStr(bob)
    /\ Len(store) = 1
    /\ heap[store[1]].creator = alice

\* C24: DELETE /polls/:id answers 400 when the body username is missing, not a text
\* or blank; otherwise 404 when no poll with that id is stored, 403 when the poll is
\* stored and the trimmed username is not its creator, and 200 when it is; it
\* answers 200 in no other case.  With 200 the poll is removed, with every other
\* answer the store is unchanged.
C24_DeleteRouteStatus ==
    [][last'.op = "DELETE /polls/:id"
       => LET id == last'.id
              username == last'.arg
              bad == username.t # "string" \/ Blank(username.s)
          IN /\ heap' = heap
             /\ last'.status = 200
                  <=> (Stored(id) /\ ~bad /\ Trim(username.s) = heap[id].creator)
             /\ bad => last'.status = 400
             /\ (~bad /\ ~Stored(id)) => last'.status = 404
             /\ (~bad /\ Stored(id) /\ Trim(username.s) # heap[id].creator)
                  => last'.status = 403
             /\ last'.status = 200
                  => /\ StoreGet(store', id) = 0
                     /\ \A other \in PollIds \ {id} : StoreGet(store', other) = StoreGet(store, other)
             /\ last'.status # 200 => store' = store]_vars

C24_Witness ==
    /\ last.op = "DELETE /polls/:id"
    /\ last.status = 200
    /\ last.arg = JSStr(<<" ", "a">>)
    /\ last.id = 1
    /\ heap[1].creator = alice
    /\ bob \in heap[1].voters
    /\ store = <<>>

(***************************************************************************)
(* The methods of PollsManager as the async functions they are.  A call    *)
(* runs until its first await and is suspended there: its continuation is  *)
(* queued as a microtask and runs when the continuations queued before it  *)
(* have run.  The repository methods it awaits have no await of their own, *)
(* so their bodies (the Map look-up, set and delete) run inside the step   *)
(* of the caller that calls them.  Between two continuations a caller may  *)
(* start further calls.                                                    *)
(***************************************************************************)
\* a call suspended at its await: poll is what the look-up it made gave (0 for
\* null), polls the array getAllPolls gave it, step the await it is suspended at
Suspended(op, id, arg, name, poll, polls, step) ==
    [op |-> op, id |-> id, arg |-> arg, name |-> name, poll |-> poll, polls |-> polls,
     step |-> step]

\* pollsManager.vote(pollId, optionIndex, username), up to
\* const poll = await this.pollsMemoryManagement.getPoll(pollId)
CallVote(pollId, optionIndex, username) ==
    /\ Len(pending) < MaxCalls
    /\ pending' = Append(pending, Suspended("vote", pollId, optionIndex, username,
                                            StoreGet(store, pollId), <<>>, 1))
    /\ UNCHANGED <<users, heap, store, handle, last, serverVars>>

\* vote, after the await: if (!poll) throw ...; poll.vote(optionIndex, username)
ResumeVote ==
    /\ pending # <<>>
    /\ Head(pending).op = "vote"
    /\ LET call == Head(pending)
           err == IF call.poll = 0
                  THEN "Error: Poll with ID not found."
                  ELSE PollVoteError(heap[call.poll], call.arg, call.name)
       IN /\ heap' = IF err = ""
                     THEN [heap EXCEPT ![call.poll] = PollRecordVote(@, call.arg, call.name)]
                     ELSE heap
          /\ last' = Call("vote", err, call.id, call.arg, call.name)
    /\ pending' = Tail(pending)
    /\ UNCHANGED <<users, store, handle, serverVars>>

\* pollsManager.deletePoll(pollId, username), up to its first await
CallDeletePoll(pollId, username) ==
    /\ Len(pending) < MaxCalls
    /\ pending' = Append(pending, Suspended("deletePoll", pollId, JSUndefined, username,
                                            StoreGet(store, pollId), <<>>, 1))
    /\ UNCHANGED <<users, heap, store, handle, last, serverVars>>

\* deletePoll, after the first await: the two tests, then
\* await this.pollsMemoryManagement.deletePoll(pollId)
ResumeDeletePoll ==
    /\ pending # <<>>
    /\ Head(pending).op = "deletePoll"
    /\ Head(pending).step = 1
    /\ LET call == Head(pending)
           err == IF call.poll = 0
                  THEN "Error: Poll with ID not found."
                  ELSE IF heap[call.poll].creator # call.name
                  THEN "Error: Only the creator can delete this poll."
                  ELSE ""
       IN IF err = ""
          THEN /\ store' = StoreDelete(store, call.id)
               /\ pending' = Append(Tail(pending), [call EXCEPT !.step = 2])
               /\ UNCHANGED last
          ELSE /\ last' = Call("deletePoll", err, call.id, JSUndefined, call.name)
               /\ pending' = Tail(pending)
               /\ UNCHANGED store
    /\ UNCHANGED <<users, heap, handle, serverVars>>

\* deletePoll, after the second await: the call is fulfilled
FinishDeletePoll ==
    /\ pending # <<>>
    /\ Head(pending).op = "deletePoll"
    /\ Head(pending).step = 2
    /\ last' = Call("deletePoll", "", Head(pending).id, JSUndefined, Head(pending).name)
    /\ pending' = Tail(pending)
    /\ UNCHANGED <<users, heap, store, handle, serverVars>>

\* pollsManager.createPoll(question, options, creator), up to
\* await this.pollsMemoryManagement.addPoll(poll): a call that throws is rejected
\* at once, the other has constructed and stored the Poll when it is suspended
CallCreatePoll(question, options, creator) ==
    LET err == CreatePollThrows(question, options, creator)
    IN IF err # ""
       THEN /\ last' = [Call("createPoll", err, 0, creator, <<>>)
                         EXCEPT !.args = <<question, options, creator>>]
            /\ UNCHANGED <<users, heap, store, handle, pending, serverVars>>
       ELSE /\ Len(heap) < MaxCreated
            /\ Len(pending) < MaxCalls
            /\ heap' = Append(heap, PollConstructor(question, options, creator))
            /\ store' = StoreSet(store, Len(heap) + 1)
            /\ pending' = Append(pending, Suspended("createPoll", Len(heap) + 1, creator, <<>>,
                                                    Len(heap) + 1, <<question, options, creator>>, 2))
            /\ UNCHANGED <<users, handle, last, serverVars>>

\* createPoll, after the await: return poll
FinishCreatePoll ==
    /\ pending # <<>>
    /\ Head(pending).op = "createPoll"
    /\ last' = [Call("createPoll", "", Head(pending).id, Head(pending).arg, <<>>)
                 EXCEPT !.args = Head(pending).polls]
    /\ pending' = Tail(pending)
    /\ UNCHANGED <<users, heap, store, handle, serverVars>>

\* pollsManager.getResults(pollId), up to its await
CallGetResults(pollId) ==
    /\ Len(pending) < MaxCalls
    /\ pending' = Append(pending, Suspended("getResults", pollId, JSUndefined, <<>>,
                                            StoreGet(store, pollId), <<>>, 1))
    /\ UNCHANGED <<users, heap, store, handle, last, serverVars>>

\* getResults, after the await: the test, then the summary of the Poll looked up
ResumeGetResults ==
    /\ pending # <<>>
    /\ Head(pending).op = "getResults"
    /\ LET call == Head(pending)
           err == IF call.poll = 0 THEN "Error: Poll with ID not found." ELSE ""
       IN /\ handle' = IF err = "" THEN ResultsSummary(call.poll) ELSE handle
          /\ last' = Call("getResults", err, call.id, JSUndefined, <<>>)
    /\ pending' = Tail(pending)
    /\ UNCHANGED <<users, heap, store, serverVars>>

\* pollsManager.listPollsVotedByUser(username), up to
\* const polls = await this.pollsMemoryManagement.getAllPolls()
CallListPollsVotedByUser(username) ==
    /\ Len(pending) < MaxCalls
    /\ pending' = Append(pending, Suspended("listPollsVotedByUser", 0, JSUndefined, username,
                                            0, GetAllPolls, 1))
    /\ UNCHANGED <<users, heap, store, handle, last, serverVars>>

\* listPollsVotedByUser, after the await: polls.filter(p => p.voters?.has(username))
ResumeListPollsVotedByUser ==
    /\ pending # <<>>
    /\ Head(pending).op = "listPollsVotedByUser"
    /\ LET call == Head(pending)
           VotedIn(id) == call.name \in VotersGetter(heap[id]).value
       IN last' = Returned("listPollsVotedByUser", 0, call.name, SelectSeq(call.polls, VotedIn))
    /\ pending' = Tail(pending)
    /\ UNCHANGED <<users, heap, store, handle, serverVars>>

\* overlapping calls of the service
NextAsync ==
    \/ CallCreatePoll(JSStr(<<"q">>), JSArray(<<JSStr(Tea), JSStr(Coffee)>>), JSStr(alice))
    \/ FinishCreatePoll
    \/ \E id \in IdArgs : CallVote(id, JSNum(1, 0), alice)
    \/ ResumeVote
    \/ \E id \in IdArgs : CallDeletePoll(id, alice)
    \/ ResumeDeletePoll
    \/ FinishDeletePoll
    \/ \E id \in IdArgs : CallGetResults(id)
    \/ ResumeGetResults
    \/ CallListPollsVotedByUser(alice)
    \/ ResumeListPollsVotedByUser

SpecAsync == Init /\ [][NextAsync]_vars

(***************************************************************************)
(* Claims about overlapping calls (SpecAsync)                              *)
(***************************************************************************)
\* C18: no step of another call takes effect between a call's look-up of the poll
\* and its mutation or result: as long as a call has not acted on the look-up it
\* made, the store still gives for its pollId what that look-up gave.
C18_NoStepBetweenLookupAndEffect ==
    \A n \in 1..Len(pending) :
        (pending[n].op \in {"vote", "deletePoll", "getResults"} /\ pending[n].step = 1)
        => pending[n].poll = StoreGet(store, pending[n].id)

\* overlapping vote calls, on polls of every kind of option text
NextOverlap ==
    \/ \E o \in {JSArray(<<JSStr(Tea), JSStr(Coffee)>>), JSArray(<<JSStr(ProtoKey), JSStr(Coffee)>>)} :
          CallCreatePoll(JSStr(<<"q">>), o, JSStr(alice))
    \/ FinishCreatePoll
    \/ \E id \in IdArgs, i \in {JSNum(0, 0), JSNum(1, 0)} : CallVote(id, i, alice)
    \/ ResumeVote

SpecOverlap == Init /\ [][NextOverlap]_vars

\* the step is the continuation of a suspended vote call
IsResumeVote == pending # <<>> /\ Head(pending).op = "vote" /\ pending' = Tail(pending)

\* of the vote calls for one username on one poll, however they overlap, the one
\* whose continuation runs first succeeds and every other fails with the
\* already-voted error and changes nothing
OneVotePerUsername ==
    (IsResumeVote /\ Head(pending).poll # 0)
    => LET call == Head(pending)
       IN IF call.name \in heap[call.poll].voters
          THEN /\ last'.err = "Error: User has already voted in this poll."
               /\ heap' = heap
          ELSE /\ last'.err = ""
               /\ call.name \in heap'[call.poll].voters

\* C25: of several vote calls for the same username on the same poll that are in
\* flight at once at most one succeeds, the others fail with the already-voted
\* error, and in every state every poll has totalVotes = |voters| = sum of its tally.
C25_OverlappingVotesCountOnce ==
    [][/\ OneVotePerUsername
       /\ \A id \in 1..Len(heap') :
             /\ heap'[id].totalVotes = Cardinality(heap'[id].voters)
             /\ heap'[id].totalVotes = SumValues(heap'[id].results)]_vars

\* the first part of C25 alone
C25_AtMostOneSucceeds == [][OneVotePerUsername]_vars

\* C26: no vote is recorded on a poll that has been removed: the continuation of a
\* vote call that succeeds runs while the poll is still stored, and one that runs
\* after the removal fails with the not-found error and changes no poll.
C26_NoVoteOnRemovedPoll ==
    [][IsResumeVote
       => LET call == Head(pending)
          IN /\ last'.err = "" => Stored(call.id)
             /\ ~Stored(call.id)
                  => (last'.err = "Error: Poll with ID not found." /\ heap' = heap)]_vars

(***************************************************************************)
(* Polls posted with option texts that trimming makes equal                *)
(***************************************************************************)
TallyOptionsArgs ==
    {JSArray(<<JSStr(<<" ", "T">>), JSStr(Tea)>>),
     JSArray(<<JSStr(Tea), JSStr(Coffee)>>)}

TallyOptionArgs == {JSNum(0, 0), JSNum(1, 0), JSNum(2, 0)}

NextTally ==
    \/ \E u \in {JSStr(alice), JSStr(bob)} : PostUsers(u)
    \/ \E o \in TallyOptionsArgs, u \in {JSStr(alice), JSStr(bob)} :
          PostPolls(JSStr(<<"q">>), o, u)
    \/ \E id \in IdArgs, o \in TallyOptionArgs, u \in {JSStr(alice), JSStr(bob)} :
          PostVote(id, o, u)

SpecTally == Init /\ [][NextTally]_vars

\* C27: votes are counted per option position: the tally of every poll has one
\* entry per position, all 0 when the poll is created, and a successful vote at
\* position i raises the count reported for options[i] by one and leaves the count
\* reported for every other position as it was, also when two positions carry the
\* same text.
C27_VotesCountedPerPosition ==
    [][/\ \A id \in 1..Len(heap') :
             Cardinality(DOMAIN heap'[id].results) = Len(heap'[id].options)
       /\ (last'.op = "POST /polls/:id/vote" /\ last'.status = 200)
            => LET id == last'.id
                   i == last'.arg.i + 1
               IN \A j \in 1..Len(heap[id].options) :
                     heap'[id].results[heap'[id].options[j]]
                       = heap[id].results[heap[id].options[j]] + (IF j = i THEN 1 ELSE 0)]_vars

(***************************************************************************)
(* Votes posted with option values of every JSON type                      *)
(***************************************************************************)
VoteOptionArgs ==
    {JSNum(0, 0), JSNum(1, 0), JSNum(2, 0), JSNum(1, 5),
     JSStr(<<"1", ".", "5">>), JSStr(<<"0", "x", "1">>), JSStr(<<"1", "e", "1">>),
     JSNull, JSStr(<<>>), JSStr(<<"x">>), JSUndefined}

NextVoteRoute ==
    \/ PostUsers(JSStr(alice))
    \/ PostPolls(JSStr(<<"q">>), JSArray(<<JSStr(Tea), JSStr(Coffee)>>), JSStr(alice))
    \/ \E id \in IdArgs, o \in VoteOptionArgs, u \in {JSStr(alice), JSStr(bob)} :
          PostVote(id, o, u)

SpecVoteRoute == Init /\ [][NextVoteRoute]_vars

\* C28: POST /polls/:id/vote records a vote only when the option value is itself
\* an integer in [0, options.length), and then at exactly that position; with an
\* option that is not an integer number it answers 400 and changes no poll.
C28_VoteRouteTakesIntegersOnly ==
    [][last'.op = "POST /polls/:id/vote"
       => LET id == last'.id
              option == last'.arg
          IN /\ last'.status = 200
                  => /\ NumberIsInteger(option)
                     /\ option.i >= 0
                     /\ option.i < Len(heap[id].options)
                     /\ heap'[id] = PollRecordVote(heap[id], option, Trim(last'.name))
             /\ ~NumberIsInteger(option) => (last'.status = 400 /\ heap' = heap)]_vars

(***************************************************************************)
(* startServer.js: start() and stop(), with the http.Server objects and    *)
(* the connections of clients.  A server has its listening handle from     *)
(* listen() on and loses it in close(); it emits 'close', which runs the   *)
(* callbacks given to close(), when it has no handle and no connection.    *)
(* A socket that was destroyed emits 'close' in a later step.              *)
(***************************************************************************)
ServerIds == 1..Len(servers)

SocketIds == 1..Len(conns)

\* the connections of server k that have not emitted 'close'
Connections(k) == {s \in SocketIds : conns[s].srv = k /\ conns[s].state # "closed"}

\* start(): server = http.createServer(app); server.on('connection', ...);
\* server.listen(0, ...)
Start ==
    /\ Len(servers) < MaxServers
    /\ servers' = Append(servers, [listening |-> TRUE, started |-> FALSE])
    /\ server' = Len(servers) + 1
    /\ UNCHANGED <<users, heap, store, handle, last, pending, sockets, conns, stops>>

\* the callback of listen: res({ baseURL }), start() is resolved
Listening(k) ==
    /\ k \in ServerIds
    /\ servers[k].listening
    /\ ~servers[k].started
    /\ servers' = [servers EXCEPT ![k].started = TRUE]
    /\ UNCHANGED <<users, heap, store, handle, last, pending, server, sockets, conns, stops>>

\* a client connects to server k: server.on('connection', s => { sockets.add(s); ... })
Connection(k) ==
    /\ k \in ServerIds
    /\ servers[k].listening
    /\ servers[k].started
    /\ Len(conns) < MaxSockets
    /\ conns' = Append(conns, [srv |-> k, state |-> "open"])
    /\ sockets' = sockets \cup {Len(conns) + 1}
    /\ UNCHANGED <<users, heap, store, handle, last, pending, server, servers, stops>>

\* the client ends a connection it held open: s.on('close', () => sockets.delete(s))
ClientClose(s) ==
    /\ s \in SocketIds
    /\ conns[s].state = "open"
    /\ conns' = [conns EXCEPT ![s].state = "closed"]
    /\ sockets' = sockets \ {s}
    /\ UNCHANGED <<users, heap, store, handle, last, pending, server, servers, stops>>

\* a destroyed socket emits 'close': s.on('close', () => sockets.delete(s))
SocketClose(s) ==
    /\ s \in SocketIds
    /\ conns[s].state = "destroyed"
    /\ conns' = [conns EXCEPT ![s].state = "closed"]
    /\ sockets' = sockets \ {s}
    /\ UNCHANGED <<users, heap, store, handle, last, pending, server, servers, stops>>

\* the servers whose start() has resolved
Started == {k \in ServerIds : servers[k].started}

\* stop(): for (const s of sockets) s.destroy(); return new Promise(res =>
\* server.close(res)).  With server undefined the call is rejected.  A call
\* remembers (after) the servers whose start() had resolved when it was made.
Stop ==
    /\ Len(stops) < MaxStops
    /\ conns' = [s \in SocketIds |->
                   IF s \in sockets /\ conns[s].state = "open"
                   THEN [conns[s] EXCEPT !.state = "destroyed"]
                   ELSE conns[s]]
    /\ IF server = 0
       THEN /\ stops' = Append(stops, [srv |-> 0, after |-> Started, state |-> "rejected"])
            /\ UNCHANGED servers
       ELSE /\ stops' = Append(stops, [srv |-> server, after |-> Started, state |-> "pending"])
            /\ servers' = [servers EXCEPT ![server].listening = FALSE]
    /\ UNCHANGED <<users, heap, store, handle, last, pending, server, sockets>>

\* server k emits 'close': every callback given to its close() runs, res()
ServerClose(k) ==
    /\ k \in ServerIds
    /\ ~servers[k].listening
    /\ Connections(k) = {}
    /\ \E n \in 1..Len(stops) : stops[n].srv = k /\ stops[n].state = "pending"
    /\ stops' = [n \in 1..Len(stops) |->
                   IF stops[n].srv = k /\ stops[n].state = "pending"
                   THEN [stops[n] EXCEPT !.state = "resolved"]
                   ELSE stops[n]]
    /\ UNCHANGED <<users, heap, store, handle, last, pending, server, sockets, servers, conns>>

NextServer ==
    \/ Start
    \/ \E k \in ServerIds : Listening(k)
    \/ \E k \in ServerIds : Connection(k)
    \/ \E s \in SocketIds : ClientClose(s)
    \/ \E s \in SocketIds : SocketClose(s)
    \/ Stop
    \/ \E k \in ServerIds : ServerClose(k)

SpecServer == Init /\ [][NextServer]_vars

\* the events of node run when they are due: a destroyed socket emits 'close',
\* and a server without handle and connections emits 'close'; a client may hold
\* a connection open for ever
FairSpecServer ==
    /\ SpecServer
    /\ WF_vars(\E s \in SocketIds : SocketClose(s))
    /\ WF_vars(\E k \in ServerIds : ServerClose(k))

\* a call of stop() made after a start() has resolved is eventually resolved
StopEventuallyResolves ==
    \A n \in 1..MaxStops :
        (Len(stops) >= n /\ stops[n].state = "pending")
          ~> (Len(stops) >= n /\ stops[n].state = "resolved")

\* C29: the tracked socket set holds every connection opened and not yet closed,
\* stop() destroys all of them, and once a call of stop() has resolved no server
\* created by a start() call that had resolved before it is still listening.
C29_StopLeavesNoServerListening ==
    [][/\ sockets' = {s \in 1..Len(conns') : conns'[s].state # "closed"}
       /\ Len(stops') > Len(stops)
            => \A s \in SocketIds : conns'[s].state # "open"
       /\ \A n \in 1..Len(stops') :
             stops'[n].state = "resolved"
               => \A k \in stops'[n].after : ~servers'[k].listening]_vars

=============================================================================
